---- MODULE Spec2Model ----
(***************************************************************************)
(* Region push-lock service of the server building dashboard               *)
(* (backend/app/services/lock_service.py).                                 *)
(*                                                                         *)
(* The table region_push_locks is the only shared state.  Every call of    *)
(* the service runs in a request task of its own, with a session of its    *)
(* own, and suspends at every awaited storage statement; one action of the *)
(* model is the code between two suspension points.  A statement followed  *)
(* by its commit is one action: the storage engine holds the row lock from *)
(* the statement to the commit.                                            *)
(*                                                                         *)
(* Time is a discrete clock; datetime.now() reads it.                      *)
(***************************************************************************)
EXTENDS Integers, FiniteSets, Sequences, TLC

\* ---------------------------------------------------------------- bounds
\* The clock stops advancing at MaxTime.
MaxTime == 2

\* ---------------------------------------------------------------- records
\* Every record is written with its fields in the order of this section.

\* RegionLockInfo(region=..., is_locked=..., locked_by_email=..., ...)
RegionLockInfo(region, is_locked, locked_by_email, locked_by_name, locked_at, expires_at) ==
    [region |-> region, is_locked |-> is_locked,
     locked_by_email |-> locked_by_email, locked_by_name |-> locked_by_name,
     locked_at |-> locked_at, expires_at |-> expires_at]

\* A row of region_push_locks.
RegionPushLockDB(id, region, locked_by_email, locked_by_name, locked_at, expires_at) ==
    [region |-> region, locked_by_email |-> locked_by_email,
     locked_by_name |-> locked_by_name, locked_at |-> locked_at,
     expires_at |-> expires_at, id |-> id]

\* The arguments and locals of a running acquire_lock: region_lower, user,
\* timeout_seconds, now, expires_at.
AcquireLocals(region, email, name, timeout, now, expires_at) ==
    [region |-> region, expires_at |-> expires_at, email |-> email,
     name |-> name, timeout |-> timeout, now |-> now, op |-> "acquire"]

\* The locals of a running push_preconfig: those of the acquire_lock it
\* calls, the part of the handler it is in, its response, how many times it
\* has called release_lock, and whether it proceeds without the lock because
\* acquire_lock raised.
PushLocals(region, email, name, timeout, now, expires_at, op, stage, response, released, degraded) ==
    [region |-> region, expires_at |-> expires_at, email |-> email,
     name |-> name, timeout |-> timeout, now |-> now, op |-> op,
     stage |-> stage, response |-> response, released |-> released,
     degraded |-> degraded]

\* ---------------------------------------------------------------- inputs
\* Request tasks that may run concurrently.
Procs == {"t1", "t2"}

\* user.email of the callers; user.name is NameOf(email).
Emails == {"alice", "bob"}

NameOf(email) == IF email = "alice" THEN "Alice" ELSE "Bob"

\* Region codes as callers pass them, and str.lower() on them.
RegionInputs == {"cbg", "CBG", "dub"}

\* Lower that leaves the code as the caller wrote it.
LowerAsGiven(region) == region

Lower(region) == IF region = "CBG" THEN "cbg" ELSE region

Regions == {Lower(r) : r \in RegionInputs}

\* timeout_seconds values a caller passes.
Timeouts == {1, 2}

\* Python's None, per type of the optional field.
NoneStr == "None"
NoneTime == 0 - 1
NoneInfo == [is_none |-> TRUE]
NoLock == [is_none |-> TRUE]

\* cleanup_expired_locks(db, region=None)
AllRegions == "*"

\* ---------------------------------------------------------------- state
VARIABLES
    clock,    \* the wall clock
    table,    \* rows of region_push_locks
    pc,       \* per task: the suspension point it is at
    call,     \* per task: the running (or last) call and its locals
    lock,     \* per task: the ORM object the last select loaded
    ret,      \* per task: what the call returned or raised
    pre,      \* history: per task, the row of the call's region when it began
              \*   (recorded when calls run one at a time)
    grant,    \* history: per region and email, the lease end of the last
              \*   grant not yet followed by a successful release (0: none)
    raced     \* history: per task, whether its no-row path overlapped
              \*   another identity's no-row path for the same region

vars == <<clock, table, pc, call, lock, ret, pre, grant, raced>>

\* ---------------------------------------------------------------- storage
\* Rows of one region (the unique key makes it at most one).
RowsOf(t, region) == {row \in t : row.region = region}

\* result.scalar_one_or_none() of "select ... where region = :region"
SelectOne(t, region) ==
    IF RowsOf(t, region) = {} THEN NoLock
    ELSE CHOOSE row \in RowsOf(t, region) : TRUE

\* The autoincrement primary key.  A key is only ever compared with the key
\* of a row a task has loaded, so the smallest key that is neither stored
\* nor loaded stands for the next one.
Ids == 1..(Cardinality(Regions) + Cardinality(Procs) + 1)

UsedIds == {row.id : row \in table}
             \cup {lock[p].id : p \in {q \in Procs : lock[q] # NoLock}}

FreshId == CHOOSE i \in Ids : i \notin UsedIds /\ \A j \in Ids : j < i => j \in UsedIds

\* ExpiredFor with the region left out of the where clause.
ExpiredForAnywhere(row, region, now) == row.expires_at < now

\* delete ... where [region = :region and] expires_at < :now
ExpiredFor(row, region, now) ==
    /\ region # AllRegions => row.region = Lower(region)
    /\ row.expires_at < now

\* CleanupDelete that deletes the rows of the region whatever their expiry.
CleanupDeleteAny(t, region, now) ==
    {row \in t : region # AllRegions /\ row.region # Lower(region)}

CleanupDelete(t, region, now) == {row \in t : ~ExpiredFor(row, region, now)}

\* The session's flush of a loaded object whose attributes were assigned:
\* "update ... set <changed columns> where id = :id".  No statement is sent
\* when no attribute changed; a statement that matches no row raises
\* StaleDataError.
\* Dirty that finds no attribute changed.
DirtyNothing(obj, vals) == {}

Dirty(obj, vals) == {f \in DOMAIN vals : vals[f] # obj[f]}

FlushFails(t, obj, vals) ==
    Dirty(obj, vals) # {} /\ ~\E row \in t : row.id = obj.id

Column(row, obj, vals, f) == IF f \in Dirty(obj, vals) THEN vals[f] ELSE row[f]

Flush(t, obj, vals) ==
    {IF row.id = obj.id
        THEN [row EXCEPT
                 !.locked_by_email = Column(row, obj, vals, "locked_by_email"),
                 !.locked_by_name = Column(row, obj, vals, "locked_by_name"),
                 !.locked_at = Column(row, obj, vals, "locked_at"),
                 !.expires_at = Column(row, obj, vals, "expires_at")]
        ELSE row : row \in t}

\* Upsert as a plain insert into a table with no unique key on region.
UpsertInsertOnly(t, id, region, email, name, now, expires_at) ==
    t \cup {RegionPushLockDB(id, region, email, name, now, expires_at)}

\* insert ... values (...) on duplicate key update locked_by_email =
\* values(locked_by_email), ... : the update carries no condition.
Upsert(t, id, region, email, name, now, expires_at) ==
    IF RowsOf(t, region) = {}
    THEN t \cup {RegionPushLockDB(id, region, email, name, now, expires_at)}
    ELSE {IF row.region = region
             THEN [row EXCEPT !.locked_by_email = email, !.locked_by_name = name,
                              !.locked_at = now, !.expires_at = expires_at]
             ELSE row : row \in t}

\* RegionLockInfo(region=lock.region, is_locked=True, ...)
LockedInfo(row) ==
    RegionLockInfo(row.region, TRUE, row.locked_by_email, row.locked_by_name,
                   row.locked_at, row.expires_at)

\* RegionLockInfo(region=region_lower, is_locked=False)
UnlockedInfo(region) ==
    RegionLockInfo(region, FALSE, NoneStr, NoneStr, NoneTime, NoneTime)

\* ---------------------------------------------------------------- results
Pending == [kind |-> "pending"]
Raised == [kind |-> "raise"]
AcquireResult(granted, info, log) ==
    [kind |-> "return", granted |-> granted, info |-> info, log |-> log]
BoolResult(value, log) == [kind |-> "return", log |-> log, value |-> value]
InfoResult(info) == [kind |-> "return", info |-> info]

\* The task is between the steps of a push_preconfig request.
InHandler(p) == "stage" \in DOMAIN call[p] /\ call[p].stage # "end"

Idle(p) == pc[p] \in {"idle", "done"} /\ ~InHandler(p)

\* The row of a region without its key, for the history variables.
Fields(row) ==
    IF row = NoLock THEN NoLock
    ELSE [locked_by_email |-> row.locked_by_email,
          locked_by_name |-> row.locked_by_name,
          locked_at |-> row.locked_at, expires_at |-> row.expires_at]

\* No other task is inside a call.
Alone(p) == \A q \in Procs \ {p} : Idle(q)

NoCall == [region |-> "cbg", op |-> "none"]

\* A call begins.  What a finished call returned is observable until the
\* next call begins: the finished tasks are forgotten then.
Begin(p, c, first, sequential) ==
    /\ Idle(p)
    /\ sequential => Alone(p)
    /\ call' = [q \in Procs |-> IF q = p THEN c
                                 ELSE IF Idle(q) THEN NoCall ELSE call[q]]
    /\ pc' = [q \in Procs |-> IF q = p THEN first
                               ELSE IF Idle(q) THEN "idle" ELSE pc[q]]
    /\ lock' = [lock EXCEPT ![p] = NoLock]
    /\ ret' = [q \in Procs |-> IF q = p \/ Idle(q) THEN Pending ELSE ret[q]]
    /\ pre' = [q \in Procs |-> IF q = p /\ sequential THEN Fields(SelectOne(table, c.region))
                                ELSE IF Idle(q) THEN NoLock ELSE pre[q]]
    /\ raced' = [q \in Procs |-> IF q = p \/ Idle(q) THEN FALSE ELSE raced[q]]
    /\ UNCHANGED <<clock, table, grant>>

\* The call returns or raises; its session and the objects it loaded go.
Finish(p, result) ==
    /\ pc' = [pc EXCEPT ![p] = "done"]
    /\ ret' = [ret EXCEPT ![p] = result]
    /\ lock' = [lock EXCEPT ![p] = NoLock]

Goto(p, next) == pc' = [pc EXCEPT ![p] = next]

Init ==
    /\ clock = 0
    /\ table = {}
    /\ pc = [p \in Procs |-> "idle"]
    /\ call = [p \in Procs |-> NoCall]
    /\ lock = [p \in Procs |-> NoLock]
    /\ ret = [p \in Procs |-> Pending]
    /\ pre = [p \in Procs |-> NoLock]
    /\ grant = [r \in Regions |-> [e \in Emails |-> 0]]
    /\ raced = [p \in Procs |-> FALSE]

\* Time passes.  A lease whose end is reached is no longer outstanding.
Tick ==
    /\ clock < MaxTime
    /\ clock' = clock + 1
    /\ grant' = [r \in Regions |-> [e \in Emails |->
                    IF grant[r][e] > clock + 1 THEN grant[r][e] ELSE 0]]
    /\ UNCHANGED <<table, pc, call, lock, ret, pre, raced>>

\* ---------------------------------------------------------------- acquire_lock
\* StillValid with the boundary instant counted as valid.
StillValidInclusive(row, now) == row.expires_at >= now

\* StillValid with the comparison off by one tick.
StillValidLate(row, now) == row.expires_at > now + 1

\* StillValid with the expiry never looked at.
StillValidAlways(row, now) == TRUE

\* "if existing_lock.expires_at > now": held by someone else and still valid
StillValid(row, now) == row.expires_at > now

\* A grant is recorded with its lease end.
Granted(p) ==
    grant' = [grant EXCEPT ![call[p].region][call[p].email] =
                 IF call[p].expires_at > clock THEN call[p].expires_at ELSE 0]

\* LeaseEnd with the timeout taken as the instant itself.
LeaseEndAbsolute(now, timeout) == timeout

\* expires_at = now + timedelta(seconds=timeout_seconds)
LeaseEnd(now, timeout) == now + timeout

\* region_lower, now, expires_at
AcquireBegin(p, region, email, timeout, sequential) ==
    Begin(p, AcquireLocals(Lower(region), email, NameOf(email), timeout, clock,
                           LeaseEnd(clock, timeout)),
          "acq_cleanup", sequential)

\* await cleanup_expired_locks(db, region_lower)
AcquireCleanup(p) ==
    /\ pc[p] = "acq_cleanup"
    /\ table' = CleanupDelete(table, call[p].region, clock)
    /\ Goto(p, "acq_select")
    /\ UNCHANGED <<clock, call, lock, ret, pre, grant, raced>>

\* The select of the existing lock and the branch on it.
AcquireSelect(p) ==
    /\ pc[p] = "acq_select"
    /\ LET c == call[p]
           existing_lock == SelectOne(table, c.region)
       IN  IF existing_lock = NoLock
           THEN /\ Goto(p, "acq_upsert")
                /\ lock' = [lock EXCEPT ![p] = existing_lock]
                /\ raced' = [q \in Procs |->
                       IF q = p
                       THEN \E o \in Procs \ {p} :
                               /\ pc[o] = "acq_upsert"
                               /\ call[o].region = c.region
                               /\ call[o].email # c.email
                       ELSE \/ raced[q]
                            \/ /\ pc[q] = "acq_upsert"
                               /\ call[q].region = c.region
                               /\ call[q].email # c.email]
                /\ UNCHANGED ret
           ELSE IF existing_lock.locked_by_email = c.email
           THEN /\ Goto(p, "acq_refresh")
                /\ lock' = [lock EXCEPT ![p] = existing_lock]
                /\ UNCHANGED <<ret, raced>>
           ELSE IF StillValid(existing_lock, c.now)
           THEN /\ Finish(p, AcquireResult(FALSE, LockedInfo(existing_lock), "failed"))
                /\ UNCHANGED raced
           ELSE /\ Goto(p, "acq_claim")
                /\ lock' = [lock EXCEPT ![p] = existing_lock]
                /\ UNCHANGED <<ret, raced>>
    /\ UNCHANGED <<clock, table, call, pre, grant>>

\* existing_lock.locked_at = now; existing_lock.expires_at = expires_at;
\* await db.commit(); return (True, None)
AcquireRefresh(p) ==
    /\ pc[p] = "acq_refresh"
    /\ LET c == call[p]
           vals == [locked_at |-> c.now, expires_at |-> c.expires_at]
       IN  IF FlushFails(table, lock[p], vals)
           THEN /\ Finish(p, Raised)
                /\ UNCHANGED <<table, grant>>
           ELSE /\ table' = Flush(table, lock[p], vals)
                /\ Finish(p, AcquireResult(TRUE, NoneInfo, "refreshed"))
                /\ Granted(p)
    /\ UNCHANGED <<clock, call, pre, raced>>

\* The expired lock of someone else is claimed in place.
AcquireClaim(p) ==
    /\ pc[p] = "acq_claim"
    /\ LET c == call[p]
           vals == [locked_by_email |-> c.email, locked_by_name |-> c.name,
                    locked_at |-> c.now, expires_at |-> c.expires_at]
       IN  IF FlushFails(table, lock[p], vals)
           THEN /\ Finish(p, Raised)
                /\ UNCHANGED <<table, grant>>
           ELSE /\ table' = Flush(table, lock[p], vals)
                /\ Finish(p, AcquireResult(TRUE, NoneInfo, "claimed"))
                /\ Granted(p)
    /\ UNCHANGED <<clock, call, pre, raced>>

\* No lock exists: await db.execute(insert ... on duplicate key update ...);
\* await db.commit()
AcquireUpsert(p) ==
    /\ pc[p] = "acq_upsert"
    /\ LET c == call[p]
       IN  table' = Upsert(table, FreshId, c.region, c.email, c.name, c.now,
                           c.expires_at)
    /\ Goto(p, "acq_verify")
    /\ UNCHANGED <<clock, call, lock, ret, pre, grant, raced>>

\* The lock is read back to see who holds it.
AcquireVerify(p) ==
    /\ pc[p] = "acq_verify"
    /\ LET c == call[p]
           l == SelectOne(table, c.region)
       IN  IF l # NoLock /\ l.locked_by_email = c.email
           THEN /\ Finish(p, AcquireResult(TRUE, NoneInfo, "acquired"))
                /\ Granted(p)
           ELSE /\ Finish(p, AcquireResult(FALSE,
                       IF l # NoLock THEN LockedInfo(l)
                       ELSE RegionLockInfo(c.region, TRUE, "unknown", NoneStr,
                                           c.now, c.now),
                       "failed (race)"))
                /\ UNCHANGED grant
    /\ UNCHANGED <<clock, table, call, pre, raced>>

\* ---------------------------------------------------------------- release_lock
ReleaseBegin(p, region, email, sequential) ==
    Begin(p, [region |-> Lower(region), email |-> email, op |-> "release"],
          "rel_select", sequential)

\* NotOwner with the ownership check left out.
NotOwnerNever(l, email) == FALSE

\* NotOwner that also turns away the holder of an expired lock.
NotOwnerOrExpired(l, email) == l.locked_by_email # email \/ l.expires_at <= clock

\* "if lock.locked_by_email != user.email": the user does not own the lock
NotOwner(l, email) == l.locked_by_email # email

\* ReleaseSelect that refuses when there is no lock to release.
ReleaseSelectStrict(p) ==
    /\ pc[p] = "rel_select"
    /\ LET c == call[p]
           l == SelectOne(table, c.region)
       IN  IF l = NoLock \/ NotOwner(l, c.email)
           THEN /\ Finish(p, BoolResult(FALSE, "denied"))
                /\ UNCHANGED grant
           ELSE /\ Goto(p, "rel_delete")
                /\ lock' = [lock EXCEPT ![p] = l]
                /\ UNCHANGED <<ret, grant>>
    /\ UNCHANGED <<clock, table, call, pre, raced>>

\* The select of the lock and the two early returns.
ReleaseSelect(p) ==
    /\ pc[p] = "rel_select"
    /\ LET c == call[p]
           l == SelectOne(table, c.region)
       IN  IF l = NoLock
           THEN /\ Finish(p, BoolResult(TRUE, "no lock"))
                /\ grant' = [grant EXCEPT ![c.region][c.email] = 0]
           ELSE IF NotOwner(l, c.email)
           THEN /\ Finish(p, BoolResult(FALSE, "denied"))
                /\ UNCHANGED grant
           ELSE /\ Goto(p, "rel_delete")
                /\ lock' = [lock EXCEPT ![p] = l]
                /\ UNCHANGED <<ret, grant>>
    /\ UNCHANGED <<clock, table, call, pre, raced>>

\* await db.execute(delete(...).where(region == region_lower));
\* await db.commit(); return True
ReleaseDelete(p) ==
    /\ pc[p] = "rel_delete"
    /\ table' = table \ RowsOf(table, call[p].region)
    /\ Finish(p, BoolResult(TRUE, "released"))
    /\ grant' = [grant EXCEPT ![call[p].region][call[p].email] = 0]
    /\ UNCHANGED <<clock, call, pre, raced>>

\* ---------------------------------------------------------------- cleanup_expired_locks
\* Called on its own, for one region or (region=None) for all.
CleanupBegin(p, region, sequential) ==
    Begin(p, [region |-> region, op |-> "cleanup"], "cleanup", sequential)

\* now; delete; count = result.rowcount; commit; return count
CleanupRun(p) ==
    /\ pc[p] = "cleanup"
    /\ table' = CleanupDelete(table, call[p].region, clock)
    /\ Finish(p, [kind |-> "return",
                  value |-> Cardinality(table \ CleanupDelete(table, call[p].region, clock))])
    /\ UNCHANGED <<clock, call, pre, grant, raced>>

\* ---------------------------------------------------------------- get_lock_status
\* StatusLive with the boundary instant counted as live.
StatusLiveInclusive(l, now) == l # NoLock /\ l.expires_at >= now

\* "if lock and lock.expires_at > now"
StatusLive(l, now) == l # NoLock /\ l.expires_at > now

StatusBegin(p, region, sequential) ==
    Begin(p, [region |-> Lower(region), now |-> clock, op |-> "status"],
          "status_select", sequential)

\* StatusSelect that also deletes the expired row it finds.
StatusSelectSweeping(p) ==
    /\ pc[p] = "status_select"
    /\ LET c == call[p]
           l == SelectOne(table, c.region)
       IN  /\ Finish(p, InfoResult(IF StatusLive(l, c.now) THEN LockedInfo(l)
                                    ELSE UnlockedInfo(c.region)))
           /\ table' = IF StatusLive(l, c.now) THEN table
                       ELSE table \ RowsOf(table, c.region)
    /\ UNCHANGED <<clock, call, pre, grant, raced>>

\* What get_lock_status returns for the rows t, read at the instant now.
GetLockStatus(t, region, now) ==
    LET l == SelectOne(t, region)
    IN  IF StatusLive(l, now) THEN LockedInfo(l) ELSE UnlockedInfo(region)

\* The select and the LockInfo built from it.
StatusSelect(p) ==
    /\ pc[p] = "status_select"
    /\ Finish(p, InfoResult(GetLockStatus(table, call[p].region, call[p].now)))
    /\ UNCHANGED <<clock, table, call, pre, grant, raced>>

\* ---------------------------------------------------------------- get_all_lock_statuses
\* LiveRows with the boundary instant counted as live.
LiveRowsInclusive(t, now) == {row \in t : row.expires_at >= now}

\* select ... where expires_at > :now
LiveRows(t, now) == {row \in t : row.expires_at > now}

\* What get_all_lock_statuses returns for the rows t, read at the instant now:
\* lock_statuses[lock.region] = RegionLockInfo(...) for each row selected.
GetAllLockStatuses(t, now) ==
    LET locks == LiveRows(t, now)
    IN  [r \in {row.region : row \in locks} |-> LockedInfo(SelectOne(locks, r))]

StatusAllBegin(p, sequential) ==
    Begin(p, [region |-> AllRegions, now |-> clock, op |-> "status_all"],
          "status_all_select", sequential)

\* The select and the dict built from it.
StatusAllSelect(p) ==
    /\ pc[p] = "status_all_select"
    /\ Finish(p, [kind |-> "return",
                  statuses |-> GetAllLockStatuses(table, call[p].now)])
    /\ UNCHANGED <<clock, table, call, pre, grant, raced>>

\* ---------------------------------------------------------------- push_preconfig
\* DEFAULT_LOCK_TIMEOUT_SECONDS, in ticks of the clock.
DefaultTimeout == 1

\* The handler calls acquire_lock(db, region_lower, current_user).
PushBegin(p, region, email, sequential) ==
    Begin(p, PushLocals(Lower(region), email, NameOf(email), DefaultTimeout, clock,
                        LeaseEnd(clock, DefaultTimeout), "acquire", "lock", "none", 0,
                        FALSE),
          "acq_cleanup", sequential)

\* PushAfterAcquire that goes on to push when the lock was refused.
PushAfterAcquireFailOpen(p) ==
    /\ pc[p] = "done" /\ InHandler(p) /\ call[p].stage = "lock"
    /\ call' = [call EXCEPT ![p].stage = "push"]
    /\ UNCHANGED <<clock, table, pc, lock, ret, pre, grant, raced>>

\* acquire_lock has returned or raised.  An exception is taken as
\* lock_acquired = True; "if not lock_acquired and existing_lock" returns the
\* 409 response with lock_info=existing_lock.
PushAfterAcquire(p) ==
    /\ pc[p] = "done" /\ InHandler(p) /\ call[p].stage = "lock"
    /\ IF ret[p].kind = "return" /\ ~ret[p].granted /\ ret[p].info # NoneInfo
       THEN call' = [call EXCEPT ![p].stage = "end", ![p].response = "conflict"]
       ELSE call' = [call EXCEPT ![p].stage = "push",
                                 ![p].degraded = (ret[p].kind = "raise")]
    /\ UNCHANGED <<clock, table, pc, lock, ret, pre, grant, raced>>

\* PushWork whose finally block does not call release_lock.
PushWorkNoRelease(p) ==
    /\ pc[p] = "done" /\ InHandler(p) /\ call[p].stage = "push"
    /\ call' = [call EXCEPT ![p].stage = "end", ![p].response = "error"]
    /\ UNCHANGED <<clock, table, pc, lock, ret, pre, grant, raced>>

\* The try block ends (an exception, preconfigs pushed, or none to push) and
\* the finally block calls release_lock(db, region_lower, current_user).
PushWork(p) ==
    /\ pc[p] = "done" /\ InHandler(p) /\ call[p].stage = "push"
    /\ \E outcome \in {"error", "pushed", "empty"} :
          call' = [call EXCEPT ![p].op = "release", ![p].stage = "unlock",
                               ![p].response = outcome,
                               ![p].released = call[p].released + 1]
    /\ pc' = [pc EXCEPT ![p] = "rel_select"]
    /\ ret' = [ret EXCEPT ![p] = Pending]
    /\ UNCHANGED <<clock, table, lock, pre, grant, raced>>

\* release_lock has returned or raised (the exception is logged); the
\* handler returns its response.
PushReturn(p) ==
    /\ pc[p] = "done" /\ InHandler(p) /\ call[p].stage = "unlock"
    /\ call' = [call EXCEPT ![p].stage = "end"]
    /\ UNCHANGED <<clock, table, pc, lock, ret, pre, grant, raced>>

\* A step of a push_preconfig request of task p.
PushStep(p, regions, sequential) ==
    \/ \E region \in regions, email \in Emails : PushBegin(p, region, email, sequential)
    \/ AcquireCleanup(p)
    \/ AcquireSelect(p)
    \/ AcquireRefresh(p)
    \/ AcquireClaim(p)
    \/ AcquireUpsert(p)
    \/ AcquireVerify(p)
    \/ PushAfterAcquire(p)
    \/ PushWork(p)
    \/ ReleaseSelect(p)
    \/ ReleaseDelete(p)
    \/ PushReturn(p)

\* ---------------------------------------------------------------- storage failure
\* StorageFails with the claim's flush sent column by column and the failure
\* striking after the holder columns, with no rollback.
StorageFailsHalfWritten(p) ==
    /\ ~Idle(p)
    /\ table' = IF pc[p] = "acq_claim"
                THEN {IF row.id = lock[p].id
                         THEN [row EXCEPT !.locked_by_email = call[p].email,
                                          !.locked_by_name = call[p].name]
                         ELSE row : row \in table}
                ELSE table
    /\ Finish(p, Raised)
    /\ UNCHANGED <<clock, call, pre, grant, raced>>

\* StorageFails with the refresh's flush sent column by column and the
\* failure striking after locked_at, with no rollback.
StorageFailsTorn(p) ==
    /\ ~Idle(p)
    /\ table' = IF pc[p] = "acq_refresh"
                THEN {IF row.id = lock[p].id
                         THEN [row EXCEPT !.locked_at = call[p].expires_at]
                         ELSE row : row \in table}
                ELSE table
    /\ Finish(p, Raised)
    /\ UNCHANGED <<clock, call, pre, grant, raced>>

\* The awaited statement or commit the task is at fails: "except Exception:
\* await db.rollback(); raise".  What the call committed before stays; the
\* failed transaction leaves nothing.
StorageFails(p) ==
    /\ ~Idle(p)
    /\ Finish(p, Raised)
    /\ UNCHANGED <<clock, table, call, pre, grant, raced>>

\* The statement or commit that the acquire_lock of the request is awaiting
\* fails.
PushStorageFails(p) ==
    /\ pc[p] \notin {"idle", "done"}
    /\ call[p].op = "acquire"
    /\ StorageFails(p)

\* The caller whose acquire_lock stopped calls it again with the same
\* arguments, before anyone else calls the service.
AcquireRerun(p) ==
    /\ pc[p] = "done" /\ call[p].op = "acquire" /\ ~InHandler(p)
    /\ ret[p] = Raised
    /\ Alone(p)
    /\ call' = [call EXCEPT ![p] =
                   [region |-> call[p].region,
                    expires_at |-> LeaseEnd(clock, call[p].timeout),
                    email |-> call[p].email, name |-> call[p].name,
                    timeout |-> call[p].timeout, now |-> clock,
                    op |-> "acquire", rerun |-> TRUE]]
    /\ pc' = [pc EXCEPT ![p] = "acq_cleanup"]
    /\ ret' = [ret EXCEPT ![p] = Pending]
    /\ pre' = [pre EXCEPT ![p] = Fields(SelectOne(table, call[p].region))]
    /\ UNCHANGED <<clock, table, lock, grant, raced>>

\* ---------------------------------------------------------------- specifications
\* A step of task p.
Step(p, regions, timeouts, sequential) ==
    \/ \E region \in regions, email \in Emails, timeout \in timeouts :
          AcquireBegin(p, region, email, timeout, sequential)
    \/ AcquireCleanup(p)
    \/ AcquireSelect(p)
    \/ AcquireRefresh(p)
    \/ AcquireClaim(p)
    \/ AcquireUpsert(p)
    \/ AcquireVerify(p)
    \/ \E region \in regions, email \in Emails : ReleaseBegin(p, region, email, sequential)
    \/ ReleaseSelect(p)
    \/ ReleaseDelete(p)
    \/ \E region \in regions \cup {AllRegions} : CleanupBegin(p, region, sequential)
    \/ CleanupRun(p)
    \/ \E region \in regions : StatusBegin(p, region, sequential)
    \/ StatusSelect(p)
    \/ StatusAllBegin(p, sequential)
    \/ StatusAllSelect(p)

\* Request tasks interleave at their suspension points.
\* The tasks contend for one region, with one lease length.
ContendedInputs == {"cbg", "CBG"}
ContendedTimeouts == {1}

Next ==
    \/ Tick
    \/ \E p \in Procs : Step(p, ContendedInputs, ContendedTimeouts, FALSE)

Spec == Init /\ [][Next]_vars

\* One call at a time: a call begins only while no other call is running.
NextSeq ==
    \/ Tick
    \/ \E p \in Procs : Step(p, RegionInputs, Timeouts, TRUE)

SpecSeq == Init /\ [][NextSeq]_vars

\* One call at a time, with one lease length, and any storage statement or
\* commit may fail.
NextFail ==
    \/ Tick
    \/ \E p \in Procs : Step(p, RegionInputs, ContendedTimeouts, TRUE)
    \/ \E p \in Procs : StorageFails(p)

SpecFail == Init /\ [][NextFail]_vars

\* The same, where the caller of a stopped acquire may call it again.
NextCrash ==
    \/ Tick
    \/ \E p \in Procs : Step(p, ContendedInputs, ContendedTimeouts, TRUE)
    \/ \E p \in Procs : StorageFails(p)
    \/ \E p \in Procs : AcquireRerun(p)

SpecCrash == Init /\ [][NextCrash]_vars

\* A step of an acquire_lock call of task p.
AcquireStep(p, regions, timeouts, sequential) ==
    \/ \E region \in regions, email \in Emails, timeout \in timeouts :
          AcquireBegin(p, region, email, timeout, sequential)
    \/ AcquireCleanup(p)
    \/ AcquireSelect(p)
    \/ AcquireRefresh(p)
    \/ AcquireClaim(p)
    \/ AcquireUpsert(p)
    \/ AcquireVerify(p)

\* Acquire calls for one region, with either lease length, interleave at
\* their suspension points.
NextLease ==
    \/ Tick
    \/ \E p \in Procs : AcquireStep(p, {"cbg"}, Timeouts, FALSE)

SpecLease == Init /\ [][NextLease]_vars

\* The region each task calls for, when the tasks call for different ones.
RegionOf(p) == IF p = "t1" THEN "cbg" ELSE "dub"

\* Acquire and release calls for two regions, one task for each, interleave
\* at their suspension points.
NextRegions ==
    \/ Tick
    \/ \E p \in Procs : AcquireStep(p, {RegionOf(p)}, ContendedTimeouts, FALSE)
    \/ \E p \in Procs, email \in Emails : ReleaseBegin(p, RegionOf(p), email, FALSE)
    \/ \E p \in Procs : ReleaseSelect(p)
    \/ \E p \in Procs : ReleaseDelete(p)

SpecRegions == Init /\ [][NextRegions]_vars

\* Push requests for one region interleave at their suspension points.
NextPush ==
    \/ Tick
    \/ \E p \in Procs : PushStep(p, ContendedInputs, FALSE)

SpecPush == Init /\ [][NextPush]_vars

\* Push requests and calls of the lock service, one at a time.
NextPushSeq ==
    \/ Tick
    \/ \E p \in Procs : Step(p, ContendedInputs, ContendedTimeouts, TRUE)
    \/ \E p \in Procs : PushStep(p, ContendedInputs, TRUE)

SpecPushSeq == Init /\ [][NextPushSeq]_vars

\* Push requests for one region interleave, and the storage may fail under
\* their acquire_lock.
NextPushFail ==
    \/ Tick
    \/ \E p \in Procs : PushStep(p, ContendedInputs, FALSE)
    \/ \E p \in Procs : PushStorageFails(p)

SpecPushFail == Init /\ [][NextPushFail]_vars

\* ---------------------------------------------------------------- properties
\* Task p returns from (or raises out of) a call of op in this step.
Returns(p, name) == pc[p] # "done" /\ pc'[p] = "done" /\ call[p].op = name

\* Task p returns (True, None) from acquire in this step.
ReturnsGranted(p) ==
    Returns(p, "acquire") /\ ret'[p].kind = "return" /\ ret'[p].granted

\* C1: mutual exclusion of grants.  Whenever acquire(r, B) returns
\* granted=true, no other identity A has a grant on r whose lease end is
\* still ahead and that no release(r, A) returning true has ended.
MutualExclusion ==
    [][\A p \in Procs :
          ReturnsGranted(p) =>
              \A e \in Emails \ {call[p].email} :
                  grant[call[p].region][e] <= clock]_vars

\* C2: two identities that both found no row for a region before either
\* ran its upsert, and whose leases both outlast the race: when the second
\* of them returns, exactly one of the two has granted=true.
RaceHasOneWinner ==
    [][\A p, q \in Procs :
          ( /\ p # q
            /\ raced[p] /\ raced[q]
            /\ pc[p] = "done" /\ ret[p].kind = "return"
            /\ Returns(q, "acquire")
            /\ call[p].expires_at > clock /\ call[q].expires_at > clock )
          => ret'[q].kind = "return" /\ ret'[q].granted # ret[p].granted]_vars

\* C7: the delete statement of release(r, A) removes no row whose holder,
\* at the moment of the delete, is an identity other than A.
ReleaseDeletesOnlyOwnLock ==
    [][\A p \in Procs :
          (pc[p] = "rel_delete" /\ pc'[p] = "done") =>
              \A row \in table \ table' :
                  row.locked_by_email = call[p].email]_vars

\* The LockInfo that reports row r as locked.
InfoOfRow(r) ==
    [region |-> r.region, is_locked |-> TRUE,
     locked_by_email |-> r.locked_by_email, locked_by_name |-> r.locked_by_name,
     locked_at |-> r.locked_at, expires_at |-> r.expires_at]

\* C3: blocked acquire.  When acquire(r, B) reads a row held by A # B with
\* expires_at > now, it returns (false, LockInfo) with is_locked=true and
\* exactly the row's holder, display name, acquired_at and expires_at, and
\* leaves the table as it is.
BlockedAcquire ==
    [][\A p \in Procs :
          (pc[p] = "acq_select" /\ pc'[p] # "acq_select") =>
              LET r == SelectOne(table, call[p].region)
              IN  ( /\ r # NoLock
                    /\ r.locked_by_email # call[p].email
                    /\ r.expires_at > call[p].now )
                  => /\ pc'[p] = "done"
                     /\ ret'[p].kind = "return"
                     /\ ret'[p].granted = FALSE
                     /\ ret'[p].info = InfoOfRow(r)
                     /\ table' = table]_vars

\* C3 witness: an acquire has returned blocked by an unexpired row of another
\* identity, and the row is still there.
BlockedAcquireSeen ==
    \E p \in Procs :
        /\ pc[p] = "done" /\ call[p].op = "acquire"
        /\ ret[p].kind = "return" /\ ~ret[p].granted /\ ret[p].log = "failed"
        /\ \E r \in table :
              /\ r.region = call[p].region
              /\ r.locked_by_email # call[p].email
              /\ r.expires_at > call[p].now
              /\ ret[p].info = InfoOfRow(r)

\* C9: status(r) reports is_locked=false with no holder fields exactly when
\* r has no row or the row's expires_at <= now, and otherwise reports
\* is_locked=true with the row's holder, display name, acquired_at and
\* expires_at.
StatusResult ==
    [][\A p \in Procs :
          (pc[p] = "status_select" /\ pc'[p] = "done") =>
              LET r == SelectOne(table, call[p].region)
              IN  /\ ret'[p].kind = "return"
                  /\ IF r = NoLock \/ r.expires_at <= call[p].now
                     THEN ret'[p].info =
                            [region |-> call[p].region, is_locked |-> FALSE,
                             locked_by_email |-> NoneStr, locked_by_name |-> NoneStr,
                             locked_at |-> NoneTime, expires_at |-> NoneTime]
                     ELSE ret'[p].info = InfoOfRow(r)]_vars

\* C9 witness: a status call has reported a live row as locked.
StatusLockedSeen ==
    \E p \in Procs :
        /\ pc[p] = "done" /\ call[p].op = "status"
        /\ ret[p].info.is_locked
        /\ \E r \in table : r.expires_at > call[p].now /\ ret[p].info = InfoOfRow(r)

\* C10: status and status_all are pure reads.  No step of either call
\* changes the table; a status call that finds an expired row reports
\* unlocked and the row stays stored.
StatusIsPureRead ==
    [][\A p \in Procs :
          (pc'[p] # pc[p] /\ call'[p].op \in {"status", "status_all"}) =>
              /\ table' = table
              /\ LET r == SelectOne(table, call[p].region)
                 IN  ( /\ pc[p] = "status_select"
                       /\ r # NoLock
                       /\ r.expires_at <= call[p].now )
                     => ~ret'[p].info.is_locked /\ r \in table']_vars

\* C10 witness: status has reported unlocked for a region whose expired row
\* is still stored.
StatusUnlockedRowKept ==
    \E p \in Procs :
        /\ pc[p] = "done" /\ call[p].op = "status"
        /\ ~ret[p].info.is_locked
        /\ \E r \in table :
              r.region = call[p].region /\ r.expires_at <= call[p].now

\* The call of task p found its region held by its own identity / by another.
HeldBySelf(p) == pre[p] # NoLock /\ pre[p].locked_by_email = call[p].email
HeldByOther(p) == pre[p] # NoLock /\ pre[p].locked_by_email # call[p].email

\* The stored row of the region of p's call, without its key.
Stored(p) == Fields(SelectOne(table, call[p].region))

\* C4: expiry takeover, calls running one at a time.  acquire(r, B) on a
\* row held by A # B with expires_at <= now returns (true, None) and leaves
\* one row for r, held by B with acquired_at = now and expires_at = now +
\* timeout; release(r, A) on a row held by B returns false and leaves the
\* row in place.
ExpiryTakeover ==
    \A p \in Procs :
        pc[p] = "done" =>
            /\ ( /\ call[p].op = "acquire"
                 /\ HeldByOther(p)
                 /\ pre[p].expires_at <= call[p].now )
               => /\ ret[p].kind = "return"
                  /\ ret[p].granted
                  /\ ret[p].info = NoneInfo
                  /\ Cardinality(RowsOf(table, call[p].region)) = 1
                  /\ Stored(p) = [locked_by_email |-> call[p].email,
                                  locked_by_name |-> call[p].name,
                                  locked_at |-> call[p].now,
                                  expires_at |-> call[p].now + call[p].timeout]
            /\ (call[p].op = "release" /\ HeldByOther(p))
               => /\ ret[p].kind = "return"
                  /\ ret[p].value = FALSE
                  /\ Stored(p) = pre[p]

\* C4 witness: an expired lock of another identity has been claimed in place.
ExpiredLockClaimed ==
    \E p \in Procs :
        /\ pc[p] = "done" /\ call[p].op = "acquire"
        /\ HeldByOther(p) /\ pre[p].expires_at <= call[p].now
        /\ ret[p].kind = "return" /\ ret[p].granted /\ ret[p].log = "claimed"
        /\ Stored(p).locked_by_email = call[p].email

\* C5 as claimed: an acquire by the holder before the lease expires returns
\* granted=true and the stored expires_at does not move backward.
RefreshNeverMovesBack ==
    \A p \in Procs :
        ( /\ pc[p] = "done" /\ call[p].op = "acquire"
          /\ HeldBySelf(p) /\ pre[p].expires_at > call[p].now )
        => /\ ret[p].kind = "return" /\ ret[p].granted
           /\ Stored(p) # NoLock
           /\ Stored(p).expires_at >= pre[p].expires_at

\* C5 as amended: the same, for a call whose timeout is at least the timeout
\* the stored lease was written with.
RefreshExtendsLease ==
    \A p \in Procs :
        ( /\ pc[p] = "done" /\ call[p].op = "acquire"
          /\ HeldBySelf(p) /\ pre[p].expires_at > call[p].now
          /\ call[p].timeout >= pre[p].expires_at - pre[p].locked_at )
        => /\ ret[p].kind = "return" /\ ret[p].granted
           /\ Stored(p) # NoLock
           /\ Stored(p).expires_at >= pre[p].expires_at

\* C5 witness: the holder has refreshed its unexpired lock and the lease end
\* has moved forward.
RefreshSeen ==
    \E p \in Procs :
        /\ pc[p] = "done" /\ call[p].op = "acquire"
        /\ HeldBySelf(p) /\ pre[p].expires_at > call[p].now
        /\ call[p].timeout >= pre[p].expires_at - pre[p].locked_at
        /\ ret[p].kind = "return" /\ ret[p].granted /\ ret[p].log = "refreshed"
        /\ Stored(p).expires_at > pre[p].expires_at

\* C6: non-holder release rejection, calls running one at a time.  When
\* release(r, B) reads a row held by A # B it returns false and the table is
\* unchanged; an acquire(r, A) or release(r, A) by the holder of the row
\* succeeds.
NonHolderRelease ==
    [][\A p \in Procs :
          /\ (pc[p] = "rel_select" /\ pc'[p] # "rel_select") =>
                 LET r == SelectOne(table, call[p].region)
                 IN  (r # NoLock /\ r.locked_by_email # call[p].email)
                     => /\ pc'[p] = "done"
                        /\ ret'[p].kind = "return"
                        /\ ret'[p].value = FALSE
                        /\ table' = table
          /\ (Returns(p, "acquire") /\ HeldBySelf(p))
                 => ret'[p].kind = "return" /\ ret'[p].granted
          /\ (Returns(p, "release") /\ HeldBySelf(p))
                 => ret'[p].kind = "return" /\ ret'[p].value]_vars

\* C6 witness: a release by a non-holder has been refused and the holder's
\* row is stored as it was.
ReleaseRefusedSeen ==
    \E p \in Procs :
        /\ pc[p] = "done" /\ call[p].op = "release"
        /\ HeldByOther(p)
        /\ ret[p].kind = "return" /\ ~ret[p].value
        /\ Stored(p) = pre[p]

\* C8: release idempotence, calls running one at a time.  release(r, X) that
\* finds no row for r returns true and changes nothing; release(r, A) by the
\* holder returns true and leaves no row for r, so that a second release(r, A)
\* finds none.
ReleaseIdempotent ==
    [][\A p \in Procs :
          /\ ( /\ pc[p] = "rel_select" /\ pc'[p] # "rel_select"
               /\ RowsOf(table, call[p].region) = {} )
             => /\ pc'[p] = "done"
                /\ ret'[p].kind = "return"
                /\ ret'[p].value
                /\ table' = table
          /\ (Returns(p, "release") /\ HeldBySelf(p))
             => /\ ret'[p].kind = "return"
                /\ ret'[p].value
                /\ RowsOf(table', call[p].region) = {}]_vars

\* C8 witness: a release of a region with no row has returned true.
ReleaseOfNothingSeen ==
    \E p \in Procs :
        /\ pc[p] = "done" /\ call[p].op = "release"
        /\ pre[p] = NoLock
        /\ ret[p].kind = "return" /\ ret[p].value /\ ret[p].log = "no lock"
        /\ RowsOf(table, call[p].region) = {}

\* C11: status_all consistency.  For the stored rows and every instant, a
\* region is a key of status_all() exactly when status(r) reports
\* is_locked=true at that instant, every entry has is_locked=true, and the
\* entry for r is the LockInfo status(r) returns; and what a status_all call
\* returned agrees in the same way with status(r) at the call's instant.
StatusAllConsistent ==
    /\ \A now \in 0..MaxTime : \A r \in Regions :
          LET all == GetAllLockStatuses(table, now)
              one == GetLockStatus(table, r, now)
          IN  /\ r \in DOMAIN all <=> one.is_locked
              /\ r \in DOMAIN all => all[r].is_locked /\ all[r] = one
    /\ \A p \in Procs :
          (pc[p] = "done" /\ call[p].op = "status_all") =>
              /\ ret[p].kind = "return"
              /\ \A r \in Regions :
                    LET one == GetLockStatus(table, r, call[p].now)
                    IN  /\ r \in DOMAIN ret[p].statuses <=> one.is_locked
                        /\ r \in DOMAIN ret[p].statuses => ret[p].statuses[r] = one

\* C11 witness: a status_all call has returned an entry for a live row and
\* left out a region whose row had expired at the call's instant.
StatusAllSeen ==
    \E p \in Procs :
        /\ pc[p] = "done" /\ call[p].op = "status_all"
        /\ \E r \in table : r.region \in DOMAIN ret[p].statuses
        /\ \E r \in table :
              r.expires_at <= call[p].now /\ r.region \notin DOMAIN ret[p].statuses

\* C12: lease as backstop, calls running one at a time.  An acquire(r, B)
\* that begins after the expires_at of a row held by another identity has
\* passed is granted and B becomes the holder; and an acquire is refused only
\* with the LockInfo of a lease that has not expired, so no abandoned lock
\* blocks a region past its expires_at.
LeaseIsBackstop ==
    [][\A p \in Procs :
          /\ ( /\ Returns(p, "acquire")
               /\ HeldByOther(p)
               /\ pre[p].expires_at < call[p].now )
             => /\ ret'[p].kind = "return"
                /\ ret'[p].granted
                /\ \E row \in table' :
                      /\ row.region = call[p].region
                      /\ row.locked_by_email = call[p].email
          /\ ( /\ Returns(p, "acquire")
               /\ ret'[p].kind = "return"
               /\ ~ret'[p].granted )
             => /\ ret'[p].info.is_locked
                /\ ret'[p].info.expires_at > call[p].now]_vars

\* C12 witness: a lock abandoned by its holder has been swept after its
\* expires_at passed, and the next acquire by another identity was granted.
AbandonedLockTaken ==
    \E p \in Procs :
        /\ pc[p] = "done" /\ call[p].op = "acquire"
        /\ HeldByOther(p) /\ pre[p].expires_at < call[p].now
        /\ ret[p].kind = "return" /\ ret[p].granted /\ ret[p].log = "acquired"
        /\ Stored(p) # NoLock /\ Stored(p).locked_by_email = call[p].email

\* Task p's call ends in the error outcome in this step.
Raises(p) == pc[p] # "done" /\ pc'[p] = "done" /\ ret'[p].kind = "raise"

\* The row acquire(r, A, timeout) writes, without its key.
Written(p) ==
    [locked_by_email |-> call[p].email, locked_by_name |-> call[p].name,
     locked_at |-> call[p].now, expires_at |-> call[p].expires_at]

\* C13 as claimed, calls running one at a time: a call in which a storage
\* statement or commit fails ends in the error outcome, which carries neither
\* a (granted, LockInfo) pair nor a boolean, the failing step changes no row,
\* and the region's row is afterwards entirely the row the call found or
\* entirely the row the call writes.
FailureLeavesOldOrNew ==
    [][\A p \in Procs :
          Raises(p) =>
              /\ DOMAIN ret'[p] = {"kind"}
              /\ table' = table
              /\ LET after == Fields(SelectOne(table', call[p].region))
                 IN  \/ after = pre[p]
                     \/ call[p].op = "acquire" /\ after = Written(p)]_vars

\* C13 as amended: the same, with the third outcome that the call's own
\* sweep had committed the removal of the expired row before the failure.
FailureLeavesWholeRow ==
    [][\A p \in Procs :
          Raises(p) =>
              /\ DOMAIN ret'[p] = {"kind"}
              /\ table' = table
              /\ LET after == Fields(SelectOne(table', call[p].region))
                 IN  \/ after = pre[p]
                     \/ call[p].op = "acquire" /\ after = Written(p)
                     \/ /\ call[p].op = "acquire"
                        /\ after = NoLock
                        /\ pre[p] # NoLock
                        /\ pre[p].expires_at < clock]_vars

\* C13 witness: an acquire has failed at its claim of an expired lock of
\* another identity and the row is stored as the call found it.
FailedClaimSeen ==
    \E p \in Procs :
        /\ pc[p] = "done" /\ call[p].op = "acquire" /\ ret[p].kind = "raise"
        /\ HeldByOther(p) /\ pre[p].expires_at <= call[p].now
        /\ Stored(p) = pre[p]

HandlerHolds(p, t) ==
    \E r \in t : r.region = call[p].region /\ r.locked_by_email = call[p].email

\* C15: release always follows a granted push.  A handler to which acquire
\* returned granted=true goes on to the push with no release called yet; when
\* the push ends, whatever its outcome, the handler calls
\* release(region, current user), once; and when the handler returns, with
\* requests running one at a time, the region has no row held by that user.
ReleaseFollowsGrantedPush ==
    [][\A p \in Procs :
          (InHandler(p) /\ pc[p] = "done" /\ call'[p] # call[p])
          => /\ ( call[p].stage = "lock" /\ ret[p].kind = "return" /\ ret[p].granted )
                => /\ call'[p].stage = "push"
                   /\ call'[p].released = 0
                   /\ HandlerHolds(p, table')
             /\ call[p].stage = "push"
                => /\ call'[p].stage = "unlock"
                   /\ call'[p].response \in {"error", "pushed", "empty"}
                   /\ call'[p].released = 1
                   /\ call'[p].op = "release"
                   /\ call'[p].region = call[p].region
                   /\ call'[p].email = call[p].email
                   /\ pc'[p] = "rel_select"
             /\ call[p].stage = "unlock"
                => /\ call'[p].stage = "end"
                   /\ call'[p].response = call[p].response
                   /\ call'[p].released = 1
                   /\ ~HandlerHolds(p, table')]_vars

\* C15 witness: a handler that was granted the lock has pushed, has called
\* release once, release has deleted the row, and the handler has returned.
ReleasedAfterPushSeen ==
    \E p \in Procs :
        /\ "stage" \in DOMAIN call[p] /\ call[p].stage = "end"
        /\ call[p].response = "pushed" /\ call[p].released = 1
        /\ ret[p] = BoolResult(TRUE, "released")
        /\ ~HandlerHolds(p, table)

\* C16: lease-length invariant.  Every row that a step of an acquire call
\* stores (inserted or changed) has expires_at = locked_at + the timeout of
\* that call, so no step leaves a row with one timestamp of one call and the
\* other timestamp of another.
LeaseLength ==
    [][\A p \in Procs :
          pc'[p] # pc[p]
          => \A r \in table' \ table :
                r.expires_at = r.locked_at + call[p].timeout]_vars

\* C17: single row per region.  In every reachable state of the table, under
\* any interleaving of acquire, release and sweep calls, no two rows have the
\* same region code.
SingleRowPerRegion ==
    \A r1 \in table, r2 \in table : r1.region = r2.region => r1 = r2

\* C17 witness: two acquire calls that both found no row for the region have
\* both run their upsert, and the region has one row.
RacingUpsertsSeen ==
    \E p \in Procs, q \in Procs :
        /\ p # q
        /\ pc[p] = "acq_verify" /\ pc[q] = "acq_verify"
        /\ raced[p] /\ raced[q]
        /\ call[p].region = call[q].region
        /\ Cardinality(RowsOf(table, call[p].region)) = 1

\* The region codes that are in lower case.
LowerCase == {"cbg", "dub"}

\* C18: region codes are case-insensitive.  Every step of an acquire,
\* release, status or region-scoped sweep call inserts, changes and deletes
\* only rows of the lower-cased region code it was called with, reports only
\* that region, a sweep called with a code in any case deletes the expired
\* rows of the lower-cased code, and every stored row has a lower-case region
\* code.
CaseInsensitive ==
    [][\A p \in Procs :
          (pc[p] \notin {"idle", "done"} /\ pc'[p] # pc[p])
          => /\ \A r \in table' : r.region \in LowerCase
             /\ call[p].region # AllRegions
                => /\ \A r \in (table \ table') \cup (table' \ table) :
                         r.region = Lower(call[p].region)
                   /\ call[p].op = "cleanup"
                      => table \ table' =
                            {r \in table : /\ r.region = Lower(call[p].region)
                                           /\ r.region \in LowerCase
                                           /\ r.expires_at < clock}
             /\ ("info" \in DOMAIN ret'[p] /\ ret'[p].info # NoneInfo)
                => ret'[p].info.region \in LowerCase \cap {Lower(call[p].region)}]_vars

\* C18 witness: a sweep called for "CBG" has deleted the expired row that was
\* stored for "cbg".
UpperCaseSweepSeen ==
    \E p \in Procs :
        /\ call[p] = [region |-> "CBG", op |-> "cleanup"]
        /\ pc[p] = "done"
        /\ ret[p] = [kind |-> "return", value |-> 1]
        /\ RowsOf(table, "cbg") = {}

\* C19: conditional upsert.  The insert-or-update statement of an acquire on
\* the no-row path leaves unchanged a row of its region that is stored, with
\* expires_at later than now, when the statement runs.
ConditionalUpsert ==
    [][\A p \in Procs :
          (pc[p] = "acq_upsert" /\ pc'[p] # pc[p])
          => \A r \in RowsOf(table, call[p].region) :
                r.expires_at > clock => r \in table']_vars

\* C20: refresh effect, calls running one at a time.  When acquire(r, A,
\* timeout) has read a row of r held by A, it returns (true, None); the row
\* it read is stored with locked_at = now and expires_at = now + timeout and
\* with its id, holder and display name as they were; and r has one row.
RefreshEffect ==
    [][\A p \in Procs :
          (pc[p] = "acq_refresh" /\ pc'[p] # pc[p])
          => /\ lock[p] \in table
             /\ lock[p].locked_by_email = call[p].email
             /\ ret'[p].kind = "return" /\ ret'[p].granted
             /\ ret'[p].info = NoneInfo
             /\ table' = (table \ {lock[p]}) \cup
                    {RegionPushLockDB(lock[p].id, lock[p].region,
                                      lock[p].locked_by_email, lock[p].locked_by_name,
                                      call[p].now, call[p].now + call[p].timeout)}
             /\ Cardinality(RowsOf(table', call[p].region)) = 1]_vars

\* C20 witness: an acquire by the holder has returned from the refresh
\* branch and the row carries the new locked_at and expires_at.
RefreshedInPlace ==
    \E p \in Procs :
        /\ pc[p] = "done" /\ call[p].op = "acquire"
        /\ ret[p].kind = "return" /\ ret[p].log = "refreshed"
        /\ pre[p] # NoLock /\ pre[p].locked_at < call[p].now
        /\ \E r \in table :
              /\ r.region = call[p].region
              /\ r.locked_by_email = call[p].email
              /\ r.locked_at = call[p].now
              /\ r.expires_at = call[p].now + call[p].timeout

\* C21: release by the recorded holder ignores expiry, calls running one at
\* a time.  When release(r, A) reads a row of r held by A, whatever the
\* row's expires_at, it goes on to the delete; it returns true, and then r
\* has no row and status(r) reports unlocked.
HolderReleaseIgnoresExpiry ==
    [][\A p \in Procs :
          /\ (pc[p] = "rel_select" /\ pc'[p] # "rel_select") =>
                 LET r == SelectOne(table, call[p].region)
                 IN  (r # NoLock /\ r.locked_by_email = call[p].email)
                     => pc'[p] = "rel_delete" /\ table' = table
          /\ (Returns(p, "release") /\ HeldBySelf(p))
             => /\ ret'[p].kind = "return"
                /\ ret'[p].value
                /\ RowsOf(table', call[p].region) = {}
                /\ GetLockStatus(table', call[p].region, clock)
                      = UnlockedInfo(call[p].region)]_vars

\* C21 witness: the holder's release of a lock whose lease end has passed
\* has returned true and the row is gone.
ExpiredLockReleased ==
    \E p \in Procs :
        /\ pc[p] = "done" /\ call[p].op = "release"
        /\ HeldBySelf(p) /\ pre[p].expires_at < clock
        /\ ret[p] = BoolResult(TRUE, "released")
        /\ RowsOf(table, call[p].region) = {}

\* The rows a sweep for the region (or for all regions) is said to delete:
\* those whose expires_at is now or earlier.
DueFor(t, region, now) ==
    {r \in t : /\ region # AllRegions => r.region = Lower(region)
               /\ r.expires_at <= now}

\* C22: sweep result.  A sweep deletes exactly the rows of its scope with
\* expires_at <= now, deletes no row with expires_at > now, and returns the
\* number of rows it deleted.
SweepResult ==
    [][\A p \in Procs :
          (pc[p] = "cleanup" /\ pc'[p] # "cleanup")
          => /\ table' \subseteq table
             /\ table \ table' = DueFor(table, call[p].region, clock)
             /\ ret'[p] = [kind |-> "return", value |-> Cardinality(table \ table')]]_vars

\* The sweep of the running acquire call of p has deleted the row the region
\* had when the call began (calls running one at a time).
Swept(p) == pre[p] # NoLock /\ RowsOf(table, call[p].region) = {}

\* The steps of acquire that write the lock: insert, refresh, takeover.
WritingSteps == {"acq_upsert", "acq_refresh", "acq_claim"}

IsRerun(p) == "rerun" \in DOMAIN call[p]

\* What holds of the table whenever calls stop at suspension points: a region
\* has at most one row and every row has expires_at = locked_at + timeout.
TableConsistent(t) ==
    /\ \A r1 \in t, r2 \in t : r1.region = r2.region => r1 = r2
    /\ \A r \in t : r.expires_at - r.locked_at \in ContendedTimeouts

\* C24: crash idempotence of acquire.  A call that stops at a suspension
\* point leaves the table consistent, and the re-run of acquire(r, A) with no
\* other caller in between returns granted=true.
CrashIdempotence ==
    [][/\ TableConsistent(table')
       /\ \A p \in Procs :
             (Returns(p, "acquire") /\ IsRerun(p) /\ ret'[p].kind = "return")
             => ret'[p].granted]_vars

\* C24 as amended: the same, where the re-run returns granted=true and
\* leaves the row held by its caller, or else it has found the row held by
\* another identity with expires_at > now and returns (false, LockInfo of
\* that row), leaving the row as it is, as any blocked acquire does.
CrashIdempotenceUnlessHeld ==
    [][/\ TableConsistent(table')
       /\ \A p \in Procs :
             (Returns(p, "acquire") /\ IsRerun(p) /\ ret'[p].kind = "return")
             => IF ret'[p].granted
                THEN /\ ret'[p].info = NoneInfo
                     /\ SelectOne(table', call[p].region) # NoLock
                     /\ SelectOne(table', call[p].region).locked_by_email
                           = call[p].email
                ELSE /\ HeldByOther(p) /\ pre[p].expires_at > call[p].now
                     /\ Fields(SelectOne(table', call[p].region)) = pre[p]
                     /\ ret'[p].info.locked_by_email = pre[p].locked_by_email]_vars

\* C24 witness: an acquire stopped, and the re-run has found the row of the
\* region held by its caller and has returned granted=true from the refresh
\* branch.
RerunAfterCrashSeen ==
    \E p \in Procs :
        /\ pc[p] = "done" /\ call[p].op = "acquire" /\ IsRerun(p)
        /\ ret[p].kind = "return" /\ ret[p].granted /\ ret[p].log = "refreshed"
        /\ HeldBySelf(p)
        /\ Stored(p) # NoLock /\ Stored(p).locked_by_email = call[p].email

\* C25: fail-open push on lock-service error.  When acquire has raised, the
\* handler goes on to the push without the conflict response; when the push
\* ends it calls release(region, current user), once; and the delete of that
\* release removes no row held by a different identity.
FailOpenPush ==
    [][\A p \in Procs :
          /\ ( /\ InHandler(p) /\ call[p].stage = "lock" /\ pc[p] = "done"
               /\ ret[p].kind = "raise" /\ call'[p] # call[p] )
             => /\ call'[p].stage = "push"
                /\ call'[p].degraded
                /\ call'[p].response = "none"
          /\ (InHandler(p) /\ call[p].degraded /\ call'[p] # call[p])
             => /\ call'[p].response # "conflict"
                /\ call[p].stage = "push"
                   => /\ call'[p].stage = "unlock"
                      /\ call'[p].released = 1
                      /\ pc'[p] = "rel_select"
          /\ ( /\ InHandler(p) /\ call[p].degraded
               /\ pc[p] = "rel_delete" /\ pc'[p] = "done" )
             => \A row \in table \ table' :
                   row.locked_by_email = call[p].email]_vars

\* C26: refusal names a real holder.  Under every interleaving, when
\* acquire(r, B) returns (false, LockInfo), the LockInfo is that of a row of r
\* stored when the call returns, its holder is an identity other than B, and
\* its expires_at is later than the call's now.
RefusalNamesHolder ==
    [][\A p \in Procs :
          ( /\ Returns(p, "acquire")
            /\ ret'[p].kind = "return" /\ ~ret'[p].granted )
          => /\ ret'[p].info.locked_by_email \in Emails \ {call[p].email}
             /\ ret'[p].info.expires_at > call[p].now
             /\ \E r \in table : ret'[p].info = InfoOfRow(r)]_vars

\* The push request of task p was granted its region, has not yet called
\* release, and its lease has not expired.
PushInProgress(p) ==
    /\ InHandler(p) /\ call[p].stage = "push" /\ ~call[p].degraded
    /\ call[p].expires_at > clock

\* C27: a push in progress keeps its lock.  While a granted push request of
\* user A has not called release and its lease is unexpired, the row of its
\* region is held by A and no push request of a different user is in
\* progress with a grant of that region.
PushKeepsLock ==
    \A p \in Procs :
        PushInProgress(p)
        => /\ HandlerHolds(p, table)
           /\ \A q \in Procs \ {p} :
                 ~( /\ PushInProgress(q)
                    /\ call[q].region = call[p].region
                    /\ call[q].email # call[p].email )

\* C28: regions are independent.  Every row that a step of acquire(r, ...)
\* or release(r, ...) inserts, changes or deletes, the sweep that acquire
\* runs included, is a row of r; the rows of every other region stay as they
\* are, whatever their holder or expiry.
RegionsIndependent ==
    [][\A p \in Procs :
          (pc[p] \notin {"idle", "done"} /\ pc'[p] # pc[p])
          => /\ \A r \in (table \ table') \cup (table' \ table) :
                   r.region = call[p].region
             /\ \A r \in table : r.region # call[p].region => r \in table']_vars

\* C28 witness: an acquire of one region has swept, inserted and returned
\* while the expired row of another holder for the other region is stored.
OtherRegionKept ==
    \E p \in Procs :
        /\ pc[p] = "done" /\ call[p].op = "acquire"
        /\ ret[p].kind = "return" /\ ret[p].granted
        /\ \E r \in table :
              /\ r.region # call[p].region
              /\ r.locked_by_email # call[p].email
              /\ r.expires_at < call[p].now

\* The row that the call of task p found at its start has its lease end
\* ahead of the instant the call took as now.
LeaseAhead(p) == pre[p] # NoLock /\ pre[p].expires_at > call[p].now

\* C29: status agrees with acquire, calls running one at a time.  For the
\* table and the instant a call starts with: status(r) reports is_locked
\* with holder A exactly when the row of r is held by A with expires_at > now,
\* and acquire(r, B) run within that instant returns granted=false exactly
\* when the row of r is held by some A # B with expires_at > now.  At
\* expires_at = now status reports unlocked and acquire grants.
StatusAgreesWithAcquire ==
    [][\A p \in Procs :
          /\ Returns(p, "status")
             => /\ ret'[p].kind = "return"
                /\ ret'[p].info.is_locked <=> LeaseAhead(p)
                /\ ret'[p].info.is_locked
                   => ret'[p].info.locked_by_email = pre[p].locked_by_email
          /\ (Returns(p, "acquire") /\ clock = call[p].now)
             => /\ ret'[p].kind = "return"
                /\ ~ret'[p].granted <=> (LeaseAhead(p) /\ HeldByOther(p))
          /\ ( /\ pc'[p] = "done" /\ pc[p] # "done"
               /\ call[p].op \in {"acquire", "status"}
               /\ clock = call[p].now
               /\ pre[p] # NoLock /\ pre[p].expires_at = call[p].now )
             => IF call[p].op = "status" THEN ~ret'[p].info.is_locked
                ELSE ret'[p].granted]_vars

\* C29 witness: acquire has returned, within the instant it started at, a
\* grant for a region whose row another identity held with expires_at = now.
TakenAtBoundary ==
    \E p \in Procs :
        /\ pc[p] = "done" /\ call[p].op = "acquire"
        /\ clock = call[p].now
        /\ HeldByOther(p) /\ pre[p].expires_at = call[p].now
        /\ ret[p].kind = "return" /\ ret[p].granted

\* C30: holder re-acquire after expiry, calls running one at a time.  When
\* acquire(r, A, timeout) starts with the row of r held by A and
\* expires_at <= now, it returns (true, None) and r has exactly one row,
\* held by A with A's display name, locked_at = now and
\* expires_at = now + timeout, whether the sweep deleted the row and the
\* call inserted a new one or the call refreshed the row in place.
HolderReacquiresExpired ==
    [][\A p \in Procs :
          ( /\ Returns(p, "acquire")
            /\ HeldBySelf(p) /\ pre[p].expires_at <= call[p].now )
          => /\ ret'[p].kind = "return" /\ ret'[p].granted
             /\ ret'[p].info = NoneInfo
             /\ ret'[p].log \in {"refreshed", "acquired"}
             /\ Cardinality(RowsOf(table', call[p].region)) = 1
             /\ Fields(SelectOne(table', call[p].region)) =
                    [locked_by_email |-> call[p].email,
                     locked_by_name |-> NameOf(call[p].email),
                     locked_at |-> call[p].now,
                     expires_at |-> call[p].now + call[p].timeout]]_vars

\* C30 witness: the holder's acquire has returned a grant after the sweep
\* deleted its expired row and the call inserted a new one.
ReinsertedAfterExpiry ==
    \E p \in Procs :
        /\ pc[p] = "done" /\ call[p].op = "acquire"
        /\ HeldBySelf(p) /\ pre[p].expires_at < call[p].now
        /\ ret[p].kind = "return" /\ ret[p].granted /\ ret[p].log = "acquired"
        /\ Stored(p).locked_at = call[p].now
        /\ Stored(p).expires_at = call[p].now + call[p].timeout

====
